---- MODULE Spec2Model ----
(***************************************************************************)
(* RezOS: the ENTFS image builder (mkfs/main.rs, mkfs/config.rs) and the   *)
(* kernel's boot-time log (kernel/src/log.rs).                             *)
(*                                                                         *)
(* Byte vectors (Vec<u8>, &str, ArrayString) are kept run-length encoded:  *)
(* a vector is a sequence of runs <<byte, count>>, count > 0, neighbouring *)
(* runs of different bytes.  Every byte vector has exactly one such form,  *)
(* so equality of encodings is equality of vectors, and a 32 MiB payload   *)
(* is as cheap to hold as a 3 byte one.                                    *)
(***************************************************************************)
EXTENDS Integers, Sequences, FiniteSets, TLC

\* ------------------------------------------------------------ constants

\* config.rs:10
SECTOR_SIZE == 512
\* config.rs:8
DEFAULT_BLOCK_SIZE == 512
\* main.rs:17
NODES_OFFSET == 2
\* log.rs:25
STATIC_LOG_MAX_CHARACTERS == 65535

\* blocks.rs is not part of the sources at hand; the spec gives Addr as a
\* 16-bit unsigned sector index.
ADDR_BITS == 16
AddrMod == 2 ^ ADDR_BITS

\* The capacity of the inode's fixed name buffer (blocks.rs, from the spec:
\* "a fixed-capacity name buffer"); the rest of the 512 byte record is the
\* array of extents, 4 bytes each.
NAME_CAPACITY == 64
DAT_SLOTS == (SECTOR_SIZE - NAME_CAPACITY) \div 4
\* size_of::<Inode>() (main.rs:100): name buffer plus extent array.
SizeOfInode == NAME_CAPACITY + DAT_SLOTS * 4

\* ------------------------------------------------------------ bounds

\* Small payloads have 0..MaxSectors full sectors plus a short tail.
MaxSectors == 2
\* The number of write_str calls made on the log.
MaxWrites == 3

\* ------------------------------------------------------------ Vec<u8>

\* vec![b; n]
Vec_repeat(b, n) == IF n = 0 THEN <<>> ELSE << <<b, n>> >>

RECURSIVE Vec_len(_)
\* Vec::len
Vec_len(v) == IF Len(v) = 0 THEN 0 ELSE v[1][2] + Vec_len(Tail(v))

\* Vec::append / push of every byte of b, in order, after a
Vec_append(a, b) ==
    IF Len(a) = 0 THEN b
    ELSE IF Len(b) = 0 THEN a
    ELSE IF a[Len(a)][1] = b[1][1]
         THEN SubSeq(a, 1, Len(a) - 1)
              \o << <<b[1][1], a[Len(a)][2] + b[1][2]>> >>
              \o Tail(b)
         ELSE a \o b

RECURSIVE Vec_take(_, _)
\* the bytes drain(0..k) yields: the first k bytes (k <= len)
Vec_take(v, k) ==
    IF k = 0 \/ Len(v) = 0 THEN <<>>
    ELSE IF v[1][2] <= k THEN <<v[1]>> \o Vec_take(Tail(v), k - v[1][2])
    ELSE << <<v[1][1], k>> >>

RECURSIVE Vec_drop(_, _)
\* what drain(0..k) leaves in the vector: all but the first k bytes
Vec_drop(v, k) ==
    IF k = 0 \/ Len(v) = 0 THEN v
    ELSE IF v[1][2] <= k THEN Vec_drop(Tail(v), k - v[1][2])
    ELSE << <<v[1][1], v[1][2] - k>> >> \o Tail(v)

RECURSIVE Vec_from(_)
\* a vector from its bytes written out
Vec_from(bytes) ==
    IF Len(bytes) = 0 THEN <<>>
    ELSE Vec_append(Vec_repeat(bytes[1], 1), Vec_from(Tail(bytes)))

\* u16 in bincode's fixed-width little-endian encoding
U16LE(x) == <<x % 256, x \div 256>>

\* ------------------------------------------------------------ paths

\* Paths and names are strings written out as their ASCII codes.
SLASH == 47
\* "build/"
BuildDir == <<98, 117, 105, 108, 100, SLASH>>
\* config.rs:4  "build/boot.bin"
DEFAULT_BOOTLOADER == BuildDir \o <<98, 111, 111, 116, 46, 98, 105, 110>>
\* config.rs:5  "build/image.bin"
DEFAULT_OUTPUT == BuildDir \o <<105, 109, 97, 103, 101, 46, 98, 105, 110>>
\* config.rs:6  "build/kernel.bin"
DEFAULT_SOURCE == BuildDir \o <<107, 101, 114, 110, 101, 108, 46, 98, 105, 110>>
\* config::DIRECT_BOOT_TARGET (main.rs:134 reads it; config.rs at hand does not
\* set it): the kernel's file name, "kernel.bin"
DIRECT_BOOT_TARGET == <<107, 101, 114, 110, 101, 108, 46, 98, 105, 110>>
\* "build/app.bin": a payload that is not the direct-boot target
AppPath == BuildDir \o <<97, 112, 112, 46, 98, 105, 110>>
\* "build/xxx...x": a payload whose name is one byte longer than the name buffer
LongNamePath == BuildDir \o [k \in 1..(NAME_CAPACITY + 1) |-> 120]

RECURSIVE LastSlash(_, _)
LastSlash(p, k) == IF k = 0 \/ p[k] = SLASH THEN k ELSE LastSlash(p, k - 1)

\* Path::new(&name).file_name().unwrap().to_str().unwrap(): the final component
Path_file_name(p) == SubSeq(p, LastSlash(p, Len(p)) + 1, Len(p))

\* ------------------------------------------------------------ blocks

\* Cluster::new(start, end): an inclusive range of sectors
Cluster_new(start, end) == [start |-> start, end |-> end]

\* Option<Cluster>
None == <<>>
Some(x) == <<x>>

\* SuperBlock::new(version, block_size): directboot absent
SuperBlock_new(version, block_size) ==
    [version |-> version, block_size |-> block_size, directboot |-> None]

\* bincode::serialize(&sb): the fields in order, integers fixed-width
\* little-endian, an Option as one tag byte followed, when Some, by its value
bincode_serialize(sb) ==
    Vec_from(U16LE(sb.version) \o U16LE(sb.block_size)
             \o (IF sb.directboot = None THEN <<0>>
                 ELSE <<1>> \o U16LE(sb.directboot[1].start)
                            \o U16LE(sb.directboot[1].end)))

\* Inode::new(): a zeroed record
Inode_new ==
    [name |-> Vec_repeat(0, NAME_CAPACITY),
     dat  |-> [k \in 0..(DAT_SLOTS - 1) |-> Cluster_new(0, 0)]]

\* Inode::name(s): copies s into the name buffer; a name longer than the buffer
\* is refused (NameTooLong) and the buffer is left as it was
Inode_name(inode, s) ==
    IF Len(s) > NAME_CAPACITY
    THEN [ok |-> FALSE, inode |-> inode]
    ELSE [ok |-> TRUE,
          inode |-> [inode EXCEPT !.name =
                        Vec_append(Vec_from(s),
                                   Vec_repeat(0, NAME_CAPACITY - Len(s)))]]

RECURSIVE Dat_bytes(_, _, _)
\* the extents of slots lo..hi, each as its two little-endian Addr
Dat_bytes(dat, lo, hi) ==
    IF lo = hi
    THEN Vec_from(U16LE(dat[lo].start) \o U16LE(dat[lo].end))
    ELSE LET mid == (lo + hi) \div 2
         IN  Vec_append(Dat_bytes(dat, lo, mid), Dat_bytes(dat, mid + 1, hi))

\* the inode record as the sector of bytes it occupies
Inode_bytes(inode) ==
    Vec_append(inode.name, Dat_bytes(inode.dat, 0, DAT_SLOTS - 1))

\* ------------------------------------------------------------ config

Target_File(name) == [kind |-> "File", name |-> name, data |-> <<>>]
Target_Dir        == [kind |-> "Dir",  name |-> <<>>, data |-> <<>>]
Target_Raw(data)  == [kind |-> "Raw",  name |-> <<>>, data |-> data]

\* Config::default()
Config_default ==
    [bootloader |-> Target_File(DEFAULT_BOOTLOADER),
     output     |-> Target_File(DEFAULT_OUTPUT),
     source     |-> Target_File(DEFAULT_SOURCE),
     directboot |-> TRUE,
     block_size |-> DEFAULT_BLOCK_SIZE]

\* a file of the host file system: absent, or its bytes
NoFile     == [exists |-> FALSE, data |-> <<>>]
File(data) == [exists |-> TRUE,  data |-> data]

NoError         == [kind |-> "None",            name |-> <<>>, size |-> 0]
BadConfig       == [kind |-> "BadConfig",       name |-> <<>>, size |-> 0]
FileNotFound(n) == [kind |-> "FileNotFound",    name |-> n,    size |-> 0]
EmptyBootloader == [kind |-> "EmptyBootloader", name |-> <<>>, size |-> 0]
InvalidInode(n) == [kind |-> "InvalidInode",    name |-> <<>>, size |-> n]

\* ------------------------------------------------------------ inputs

RECURSIVE Pattern(_, _)
\* k full sectors, sector j (from 1) filled with byte j
Pattern(j, k) ==
    IF j > k THEN <<>>
    ELSE Vec_append(Vec_repeat(j, SECTOR_SIZE), Pattern(j + 1, k))

\* a payload of k full sectors and a tail of d bytes
Payload(k, d) == Vec_append(Pattern(1, k), Vec_repeat(k + 1, d))

SmallPayloads ==
    { Payload(k, d) : k \in 0..MaxSectors, d \in {0, 1, SECTOR_SIZE - 1} }
        \cup { Vec_from(<<9, 0, 7, 0>>) }

\* payloads whose sector count reaches the width of Addr: two sectors of
\* bytes 1 and 2, then n - 2 sectors of byte 3 and a tail of d bytes
BigPayload(n, d) ==
    Vec_append(Pattern(1, 2),
               Vec_append(Vec_repeat(3, (n - 2) * SECTOR_SIZE), Vec_repeat(4, d)))

BigPayloads ==
    { BigPayload(AddrMod - 3, 0), BigPayload(AddrMod - 2, 0),
      BigPayload(AddrMod, 0), BigPayload(AddrMod, 1) }

Payloads == SmallPayloads \cup BigPayloads

BootImages == { <<>>, Vec_from(<<235, 254>>), Vec_repeat(144, SECTOR_SIZE) }

SourcePaths == { DEFAULT_SOURCE, AppPath, LongNamePath }

AllPaths == SourcePaths \cup { DEFAULT_BOOTLOADER, DEFAULT_OUTPUT }

\* ------------------------------------------------------------ state

VARIABLES
    cfg,              \* mkfs's argument: the Config
    fs,               \* the host file system: path -> file
    overflow_checks,  \* the build profile: TRUE traps integer overflow (debug)
    pc,               \* mkfs's position ("panic": the run was aborted)
    err,              \* the MkfsError mkfs returned (pc = "error")
    boot,             \* main.rs:78
    image,            \* main.rs:97
    content,          \* main.rs:112
    location,         \* main.rs:122
    inode_container,  \* main.rs:105
    dnode_container,  \* main.rs:106
    range,            \* main.rs:148: the loop's position and (exclusive) end
    compact,          \* main.rs:169
    report,           \* main.rs:177
    out_file,         \* the file at the output path
    io,               \* the file operations mkfs made, in order
    log_content,      \* StaticLog::content
    log_sink,         \* the bytes handed to limine::print_bytes, in order
    log_result,       \* the last write_str call: its argument and its result
    log_calls         \* the number of write_str calls made

mkfs_vars == <<cfg, fs, overflow_checks, pc, err, boot, image, content, location,
               inode_container, dnode_container, range, compact, report,
               out_file, io>>
log_vars  == <<log_content, log_sink, log_result, log_calls>>
vars      == <<mkfs_vars, log_vars>>

IoEvent(op, role, path) == [op |-> op, role |-> role, path |-> path]

\* Image::new(sb, boot)
Image_new(sb, b) == [sb |-> sb, boot |-> b, nodes |-> <<>>]

\* a Node refers to an element of one of the two containers
Node_inode(k) == [kind |-> "inode", at |-> k]
Node_dnode(k) == [kind |-> "dnode", at |-> k]

NoReport == [fssize |-> 0, inode_count |-> 0, dnode_count |-> 0]

\* the locals of mkfs before the first statement, and no output file
MkfsStart ==
    /\ pc = "load_boot"
    /\ err = NoError
    /\ boot = <<>>
    /\ image = Image_new(SuperBlock_new(0, 0), <<>>)
    /\ content = <<>>
    /\ location = Cluster_new(0, 0)
    /\ inode_container = <<>>
    /\ dnode_container = <<>>
    /\ range = [i |-> 0, hi |-> 0]
    /\ compact = <<>>
    /\ report = NoReport
    /\ out_file = NoFile
    /\ io = <<>>

\* StaticLog::new()
StaticLog_new ==
    /\ log_content = <<>>
    /\ log_sink = <<>>
    /\ log_result = [s |-> <<>>, ok |-> TRUE]
    /\ log_calls = 0

BootTargets ==
    { Target_File(DEFAULT_BOOTLOADER), Target_Dir }
        \cup { Target_Raw(b) : b \in BootImages }

SourceTargets ==
    { Target_File(p) : p \in SourcePaths } \cup { Target_Dir, Target_Raw(<<1, 1>>) }

OutputTargets == { Target_File(DEFAULT_OUTPUT), Target_Raw(<<>>) }

\* one run of mkfs: any configuration, the payload file absent or one of
\* `payloads`
InitWith(payloads) ==
    /\ \E b \in BootTargets, s \in SourceTargets, o \in OutputTargets,
          d \in BOOLEAN :
          cfg = [bootloader |-> b, output |-> o, source |-> s,
                 directboot |-> d, block_size |-> DEFAULT_BLOCK_SIZE]
    /\ \E bf \in { NoFile } \cup { File(b) : b \in BootImages },
          sf \in { NoFile } \cup { File(p) : p \in payloads } :
          fs = [p \in AllPaths |->
                  IF p = DEFAULT_BOOTLOADER THEN bf
                  ELSE IF p \in SourcePaths THEN sf
                  ELSE NoFile]
    /\ overflow_checks \in BOOLEAN
    /\ MkfsStart
    /\ StaticLog_new

\* payloads of every size, those that reach the width of Addr included
Init == InitWith(Payloads)

\* payloads of a few sectors only: every sector count fits Addr with room
InRangeInit == InitWith(SmallPayloads)

\* ------------------------------------------------------------ mkfs

Fail(e) == pc' = "error" /\ err' = e

\* File::open(&name): the open is made, and succeeds when the file exists
Open(role, name) == io' = Append(io, IoEvent("open", role, name))

\* BootIsEmpty with the check left out: no boot loader counts as empty
BootIsEmpty_unchecked(b) == FALSE

\* main.rs:93  boot == vec![]
BootIsEmpty(b) == Vec_len(b) = 0

\* main.rs:78-90: load the boot code
LoadBoot ==
    /\ pc = "load_boot"
    /\ IF cfg.bootloader.kind = "File"
       THEN /\ Open("bootloader", cfg.bootloader.name)
            /\ IF fs[cfg.bootloader.name].exists
               THEN /\ boot' = fs[cfg.bootloader.name].data
                    /\ pc' = "check_boot"
                    /\ err' = err
               ELSE /\ Fail(FileNotFound(cfg.bootloader.name))
                    /\ boot' = boot
       ELSE IF cfg.bootloader.kind = "Raw"
       THEN /\ boot' = cfg.bootloader.data
            /\ pc' = "check_boot"
            /\ UNCHANGED <<err, io>>
       ELSE /\ Fail(BadConfig)
            /\ UNCHANGED <<boot, io>>
    /\ UNCHANGED <<cfg, fs, overflow_checks, image, content, location,
                   inode_container, dnode_container, range, compact, report,
                   out_file, log_vars>>

\* main.rs:92-106: refuse an empty boot loader, make the image, check the
\* inode's size
CheckBoot ==
    /\ pc = "check_boot"
    /\ IF BootIsEmpty(boot)
       THEN Fail(EmptyBootloader) /\ image' = image
       ELSE /\ image' = Image_new(SuperBlock_new(1, cfg.block_size), boot)
            /\ IF SizeOfInode # SECTOR_SIZE
               THEN Fail(InvalidInode(SizeOfInode))
               ELSE pc' = "load_payload" /\ err' = err
    /\ UNCHANGED <<cfg, fs, overflow_checks, boot, content, location,
                   inode_container, dnode_container, range, compact, report,
                   out_file, io, log_vars>>

\* LoadPayload with the output file created before the payload is opened
LoadPayload_output_first ==
    /\ pc = "load_payload"
    /\ out_file' = File(<<>>)
    /\ IF cfg.source.kind = "File"
       THEN /\ io' = io \o << IoEvent("create", "output", cfg.output.name),
                               IoEvent("open", "source", cfg.source.name) >>
            /\ IF fs[cfg.source.name].exists
               THEN /\ content' = fs[cfg.source.name].data
                    /\ pc' = "extent"
                    /\ err' = err
               ELSE /\ Fail(FileNotFound(cfg.source.name))
                    /\ content' = content
       ELSE /\ Fail(BadConfig)
            /\ io' = Append(io, IoEvent("create", "output", cfg.output.name))
            /\ content' = content
    /\ UNCHANGED <<cfg, fs, overflow_checks, boot, image, location,
                   inode_container, dnode_container, range, compact, report,
                   log_vars>>

\* main.rs:108-120, 165: read the payload
LoadPayload ==
    /\ pc = "load_payload"
    /\ IF cfg.source.kind = "File"
       THEN /\ Open("source", cfg.source.name)
            /\ IF fs[cfg.source.name].exists
               THEN /\ content' = fs[cfg.source.name].data
                    /\ pc' = "extent"
                    /\ err' = err
               ELSE /\ Fail(FileNotFound(cfg.source.name))
                    /\ content' = content
       ELSE /\ Fail(BadConfig)
            /\ UNCHANGED <<content, io>>
    /\ UNCHANGED <<cfg, fs, overflow_checks, boot, image, location,
                   inode_container, dnode_container, range, compact, report,
                   out_file, log_vars>>

\* main.rs:128: the number of blocks the data needs
SectorsNeeded(len) ==
    len \div SECTOR_SIZE + (IF len % SECTOR_SIZE > 0 THEN 1 ELSE 0)

\* main.rs:128-129: `as Addr` keeps the low bits
AsAddr(n) == n % AddrMod

\* main.rs:127-129: the extent's end, before Addr's width is applied to the sum
ExtentEnd(len) == NODES_OFFSET + AsAddr(SectorsNeeded(len))

\* main.rs:121-130: the bounds of the data nodes.  An Addr sum past the width
\* of Addr panics in a build with overflow checks and wraps in one without.
ComputeExtent ==
    /\ pc = "extent"
    /\ LET end == ExtentEnd(Vec_len(content)) IN
         IF end >= AddrMod /\ overflow_checks
         THEN pc' = "panic" /\ location' = location
         ELSE /\ location' = Cluster_new(NODES_OFFSET, end % AddrMod)
              /\ pc' = "inode"
    /\ UNCHANGED <<cfg, fs, overflow_checks, err, boot, image, content,
                   inode_container, dnode_container, range, compact, report,
                   out_file, io, log_vars>>

\* DirectBoot with the name left unchecked
DirectBoot_any_name(c, name) == c.directboot

\* main.rs:134: the payload is the one to boot directly
DirectBoot(c, name) == c.directboot /\ name = DIRECT_BOOT_TARGET

\* main.rs:131-146: the superblock's directboot, the inode and its node.
\* What inode.name returns is dropped (main.rs:139).
SetupInode ==
    /\ pc = "inode"
    /\ LET name  == Path_file_name(cfg.source.name)
           named == Inode_name(Inode_new, name).inode
           inode == [named EXCEPT !.dat[0] = location]
       IN /\ image' = [image EXCEPT
                         !.sb.directboot =
                            IF DirectBoot(cfg, name) THEN Some(location) ELSE @,
                         !.nodes = Append(@, Node_inode(1))]
          /\ inode_container' = Append(inode_container, inode)
    /\ pc' = "range"
    /\ UNCHANGED <<cfg, fs, overflow_checks, err, boot, content, location,
                   dnode_container, range, compact, report, out_file, io,
                   log_vars>>

\* main.rs:148: the range location.start..location.end + 1
LoadDataRange ==
    /\ pc = "range"
    /\ LET hi == location.end + 1 IN
         IF hi >= AddrMod /\ overflow_checks
         THEN pc' = "panic" /\ range' = range
         ELSE /\ range' = [i |-> location.start, hi |-> hi % AddrMod]
              /\ pc' = "load_data"
    /\ UNCHANGED <<cfg, fs, overflow_checks, err, boot, image, content, location,
                   inode_container, dnode_container, compact, report, out_file,
                   io, log_vars>>

\* main.rs:150-159: the next data sector cut from the front of the content
NextSector(c) ==
    IF Vec_len(c) >= SECTOR_SIZE
    THEN [sector |-> Vec_take(c, SECTOR_SIZE), rest |-> Vec_drop(c, SECTOR_SIZE)]
    ELSE [sector |-> Vec_append(c, Vec_repeat(0, SECTOR_SIZE - Vec_len(c))),
          rest   |-> <<>>]

\* main.rs:148-160: one turn of the loop
LoadData ==
    /\ pc = "load_data"
    /\ range.i < range.hi
    /\ dnode_container' = Append(dnode_container, NextSector(content).sector)
    /\ content' = NextSector(content).rest
    /\ range' = [range EXCEPT !.i = @ + 1]
    /\ UNCHANGED <<cfg, fs, overflow_checks, pc, err, boot, image, location,
                   inode_container, compact, report, out_file, io, log_vars>>

\* main.rs:161-163: the data nodes follow the inode
AssembleNodes ==
    /\ pc = "load_data"
    /\ range.i >= range.hi
    /\ image' = [image EXCEPT !.nodes =
                    @ \o [k \in 1..Len(dnode_container) |-> Node_dnode(k)]]
    /\ pc' = "build"
    /\ UNCHANGED <<cfg, fs, overflow_checks, err, boot, content, location,
                   inode_container, dnode_container, range, compact, report,
                   out_file, io, log_vars>>

\* main.rs:65-72: what build reads through a node, SECTOR_SIZE bytes of
\* node.dnode.  A data node was stored through dnode and yields its sector.
\* The inode node was stored through the other field of the union
\* (main.rs:144-146), so reading it through dnode is undefined behaviour: the
\* run either stops there (the index panics, or the process is
\* killed) or reads the bytes of the inode record.
Node_bytes(node, inodes, dnodes) ==
    IF node.kind = "inode"
    THEN { [ok |-> FALSE, bytes |-> <<>>],
           [ok |-> TRUE,
            bytes |-> Vec_take(Inode_bytes(inodes[node.at]), SECTOR_SIZE)] }
    ELSE { [ok |-> TRUE, bytes |-> Vec_take(dnodes[node.at], SECTOR_SIZE)] }

RECURSIVE Nodes_bytes(_, _, _)
\* main.rs:65-72: the loop over the nodes; the bytes pushed, all of them (ok)
\* or those before the node at which build stopped
Nodes_bytes(nodes, inodes, dnodes) ==
    IF Len(nodes) = 0 THEN { [ok |-> TRUE, bytes |-> <<>>] }
    ELSE UNION { IF ~h.ok THEN { h }
                 ELSE { [ok |-> t.ok, bytes |-> Vec_append(h.bytes, t.bytes)] :
                          t \in Nodes_bytes(Tail(nodes), inodes, dnodes) } :
                 h \in Node_bytes(nodes[1], inodes, dnodes) }

\* Image::build(target), target empty: the boot code, the superblock, the
\* nodes; every outcome the read of the nodes allows
Image_build(img, inodes, dnodes) ==
    { [ok |-> r.ok,
       target |-> Vec_append(img.boot,
                             Vec_append(bincode_serialize(img.sb), r.bytes))] :
        r \in Nodes_bytes(img.nodes, inodes, dnodes) }

\* main.rs:168-172, 175: the image's bytes; build moves the boot code out, and
\* mkfs goes on to write only when build returns
BuildImage ==
    /\ pc = "build"
    /\ IF cfg.output.kind = "File"
       THEN \E r \in Image_build(image, inode_container, dnode_container) :
              /\ compact' = r.target
              /\ image' = [image EXCEPT !.boot = <<>>]
              /\ pc' = IF r.ok THEN "write" ELSE "panic"
              /\ err' = err
       ELSE /\ Fail(BadConfig)
            /\ UNCHANGED <<compact, image>>
    /\ UNCHANGED <<cfg, fs, overflow_checks, boot, content, location,
                   inode_container, dnode_container, range, report, out_file,
                   io, log_vars>>

\* main.rs:173-181: create the output, write the image, report.  The one
\* write call is taken to write the whole buffer, as it does to a regular file.
WriteOutput ==
    /\ pc = "write"
    /\ io' = io \o << IoEvent("create", "output", cfg.output.name),
                      IoEvent("write", "output", cfg.output.name) >>
    /\ out_file' = File(compact)
    /\ report' = [fssize      |-> Vec_len(compact),
                  inode_count |-> Len(inode_container),
                  dnode_count |-> Len(dnode_container)]
    /\ pc' = "done"
    /\ UNCHANGED <<cfg, fs, overflow_checks, err, boot, image, content,
                   location, inode_container, dnode_container, range, compact,
                   log_vars>>

Next ==
    \/ LoadBoot
    \/ CheckBoot
    \/ LoadPayload
    \/ ComputeExtent
    \/ SetupInode
    \/ LoadDataRange
    \/ LoadData
    \/ AssembleNodes
    \/ BuildImage
    \/ WriteOutput

Spec == Init /\ [][Next]_vars

InRangeSpec == InRangeInit /\ [][Next]_vars

\* ------------------------------------------------------------ StaticLog

\* ArrayString::remaining_capacity
remaining_capacity(c) == STATIC_LOG_MAX_CHARACTERS - Vec_len(c)

\* Refused with the comparison off by one: a string that fills the buffer
\* exactly is refused too
Refused_off_by_one(s, c) == Vec_len(s) >= remaining_capacity(c)

\* log.rs:41: the string does not fit
Refused(s, c) == Vec_len(s) > remaining_capacity(c)

\* the strings written: empty, short, and long enough to fill the buffer,
\* exactly or by one byte too many
LogStrings ==
    { <<>>, Vec_from(<<79, 75>>), Vec_from(<<10>>), Vec_from(<<46>>),
      Vec_repeat(46, STATIC_LOG_MAX_CHARACTERS - 3),
      Vec_repeat(46, STATIC_LOG_MAX_CHARACTERS),
      Vec_repeat(46, STATIC_LOG_MAX_CHARACTERS + 1) }

\* log.rs:40-47  StaticLog::write_str(s)
write_str(s) ==
    /\ IF Refused(s, log_content)
       THEN /\ log_result' = [s |-> s, ok |-> FALSE]
            /\ UNCHANGED <<log_content, log_sink>>
       ELSE /\ log_sink' = Vec_append(log_sink, s)
            /\ log_content' = Vec_append(log_content, s)
            /\ log_result' = [s |-> s, ok |-> TRUE]
    /\ log_calls' = log_calls + 1
    /\ UNCHANGED mkfs_vars

LogNext == \E s \in LogStrings : log_calls < MaxWrites /\ write_str(s)

\* the kernel's log from its construction on; mkfs is a separate program, held
\* at the start of a run with the default configuration
LogInit ==
    /\ cfg = Config_default
    /\ fs = [p \in AllPaths |-> NoFile]
    /\ overflow_checks = FALSE
    /\ MkfsStart
    /\ StaticLog_new

LogSpec == LogInit /\ [][LogNext]_vars

\* ------------------------------------------------------------ properties

\* what the properties speak about, read off the inputs
Success      == pc = "done"
SourceIsFile == cfg.source.kind = "File"
PayloadBytes == fs[cfg.source.name].data
PayloadLen   == Vec_len(PayloadBytes)
PayloadName  == Path_file_name(cfg.source.name)
BootBytes    == IF cfg.bootloader.kind = "File"
                THEN fs[cfg.bootloader.name].data
                ELSE cfg.bootloader.data
\* ceil(L / SECTOR_SIZE)
CeilSectors(L) == (L + SECTOR_SIZE - 1) \div SECTOR_SIZE
IoOf(op, role) == \E k \in 1..Len(io) : io[k].op = op /\ io[k].role = role
OutputTouched  == IoOf("create", "output") \/ IoOf("write", "output")
                    \/ out_file # NoFile

RECURSIVE Concat(_)
\* the data sectors laid end to end
Concat(sectors) ==
    IF Len(sectors) = 0 THEN <<>>
    ELSE Vec_append(sectors[1], Concat(Tail(sectors)))

\* C1: a successful run produces exactly ceil(L / SECTOR_SIZE) data sectors,
\* and when L mod SECTOR_SIZE is not zero the final data sector is zero from
\* offset L mod SECTOR_SIZE on.
C1_DataSectorCount ==
    Success =>
        /\ Len(dnode_container) = CeilSectors(PayloadLen)
        /\ report.dnode_count = CeilSectors(PayloadLen)
        /\ PayloadLen % SECTOR_SIZE # 0 =>
              Vec_drop(dnode_container[Len(dnode_container)],
                       PayloadLen % SECTOR_SIZE)
                  = Vec_repeat(0, SECTOR_SIZE - (PayloadLen % SECTOR_SIZE))

\* C2: a run that ends in an error has neither created nor written the output;
\* the output is written only once the whole image is in the buffer, and a
\* source that cannot be opened ends the run with FileNotFound.
C2_NoOutputOnError ==
    /\ pc = "error" => ~OutputTouched
    /\ OutputTouched =>
          /\ pc = "done"
          /\ out_file = File(compact)
          /\ Vec_len(compact) = Vec_len(BootBytes)
                                  + Vec_len(bincode_serialize(image.sb))
                                  + SECTOR_SIZE * Len(image.nodes)
    /\ (IoOf("open", "source") /\ ~fs[cfg.source.name].exists) =>
          /\ pc = "error"
          /\ err = FileNotFound(cfg.source.name)
          /\ ~OutputTouched

C2_Witness ==
    /\ pc = "error"
    /\ err = FileNotFound(cfg.source.name)
    /\ IoOf("open", "source")
    /\ cfg.output.kind = "File"

\* C3: after a successful run the superblock's directboot is present exactly
\* when cfg.directboot is set and the payload's file name is the direct-boot
\* target, and then it is the extent in the inode's fragment slot 0.
C3_DirectBoot ==
    Success =>
        /\ (image.sb.directboot # None)
              <=> (cfg.directboot /\ PayloadName = DIRECT_BOOT_TARGET)
        /\ image.sb.directboot # None =>
              image.sb.directboot[1] = inode_container[1].dat[0]

C3_Witness ==
    /\ Success
    /\ image.sb.directboot # None
    /\ image.sb.directboot[1] = inode_container[1].dat[0]
    /\ PayloadLen > 0

\* the boot source resolves to zero bytes
BootResolvesEmpty ==
    \/ cfg.bootloader.kind = "Raw" /\ Vec_len(cfg.bootloader.data) = 0
    \/ /\ cfg.bootloader.kind = "File"
       /\ fs[cfg.bootloader.name].exists
       /\ Vec_len(fs[cfg.bootloader.name].data) = 0

\* C4: with a boot source of zero bytes the run ends with EmptyBootloader, and
\* the payload source is never opened.
C4_EmptyBootBeforePayload ==
    BootResolvesEmpty =>
        /\ pc \in {"load_boot", "check_boot", "error"}
        /\ pc = "error" => err = EmptyBootloader
        /\ ~IoOf("open", "source")
        /\ content = <<>>

C4_Witness ==
    /\ BootResolvesEmpty
    /\ pc = "error"
    /\ err = EmptyBootloader
    /\ SourceIsFile
    /\ fs[cfg.source.name].exists
    /\ cfg.output.kind = "File"

\* C5: the image's length, and the reported fssize, is len(boot) + the size of
\* the superblock record + SECTOR_SIZE * (1 + data sectors), the record's size
\* being the same with directboot present as with it absent.
C5_ImageLength ==
    Success =>
        /\ report.fssize = Vec_len(out_file.data)
        /\ Vec_len(out_file.data)
              = Vec_len(BootBytes)
                  + Vec_len(bincode_serialize(SuperBlock_new(1, cfg.block_size)))
                  + SECTOR_SIZE * (1 + report.dnode_count)

\* C6: a payload whose file name is longer than the inode's name buffer ends
\* the build with an error; no image is written.
C6_NameTooLong ==
    (SourceIsFile /\ Len(PayloadName) > NAME_CAPACITY) =>
        /\ pc # "done"
        /\ ~OutputTouched

\* C7: in a successful build the nodes are the inode and then the data
\* sectors (in the image: one sector, then the data sectors), and the data
\* sectors laid end to end are the payload's bytes in order followed by zero
\* bytes only.
C7_PayloadInOrder ==
    Success =>
        LET data  == Concat(dnode_container)
            nodes == Vec_drop(out_file.data,
                              Vec_len(BootBytes)
                                + Vec_len(bincode_serialize(image.sb)))
        IN  /\ image.nodes = <<Node_inode(1)>>
                 \o [k \in 1..Len(dnode_container) |-> Node_dnode(k)]
            /\ Vec_len(nodes) = SECTOR_SIZE + Vec_len(data)
            /\ Vec_drop(nodes, SECTOR_SIZE) = data
            /\ Vec_len(data) >= PayloadLen
            /\ Vec_take(data, PayloadLen) = PayloadBytes
            /\ Vec_drop(data, PayloadLen)
                  = Vec_repeat(0, Vec_len(data) - PayloadLen)

\* C8: with node k of the stream in sector NODES_OFFSET + k, the extent in
\* the inode's slot 0 has as many sectors as there are data nodes, holds every
\* data node's sector, and does not hold the inode's sector.
C8_ExtentCoversData ==
    Success =>
        LET e == inode_container[1].dat[0]
            n == Len(dnode_container)
        IN  /\ e.end - e.start + 1 = n
            /\ \A k \in 1..n :
                  e.start <= NODES_OFFSET + k /\ NODES_OFFSET + k <= e.end
            /\ ~(e.start <= NODES_OFFSET /\ NODES_OFFSET <= e.end)

\* C9: for every payload length the extent has start <= end: neither the cast
\* of the sector count to Addr nor the sum with NODES_OFFSET wraps, and no
\* sector of the payload is missing from the image.
C9_NoAddrWrap ==
    /\ pc \in {"inode", "range", "load_data", "build", "write", "done"} =>
          /\ location.start <= location.end
          /\ location.end = NODES_OFFSET + CeilSectors(PayloadLen)
    /\ Success => Len(dnode_container) * SECTOR_SIZE >= PayloadLen

\* the state part: what went to the sink is the buffer's content, and the
\* buffer never holds more than its capacity.
LogMirrored ==
    /\ log_sink = log_content
    /\ Vec_len(log_content) <= STATIC_LOG_MAX_CHARACTERS

\* the step part: a call succeeds exactly when the string is no longer than
\* the room left; then it is appended to both; a call that fails changes
\* neither.
LogStep ==
    log_calls' # log_calls =>
        LET s == log_result'.s IN
        /\ log_result'.ok
              <=> (Vec_len(s) + Vec_len(log_content) <= STATIC_LOG_MAX_CHARACTERS)
        /\ log_result'.ok =>
              /\ log_content' = Vec_append(log_content, s)
              /\ log_sink' = Vec_append(log_sink, s)
        /\ ~log_result'.ok =>
              /\ log_content' = log_content
              /\ log_sink' = log_sink

\* C10: after any sequence of write_str calls the sink holds the buffer's
\* content and the buffer is within its capacity of 65535; a call succeeds
\* exactly when the string fits the room left, and a failed call changes
\* neither the buffer nor the sink.
C10_StaticLog == [](LogMirrored) /\ [][LogStep]_vars

C10_Witness ==
    /\ ~log_result.ok
    /\ Vec_len(log_result.s) > 0
    /\ Vec_len(log_content) = STATIC_LOG_MAX_CHARACTERS
    /\ log_calls = MaxWrites

====
